---- MODULE Spec2Model ----
(***************************************************************************)
(* A model of the BTC Markets exchange client (src/btcmarkets.go): the     *)
(* client's configuration state, its authenticated order operations, the   *)
(* signing of an authenticated request, its market-data fetchers and the   *)
(* ticker polling loop Run with its fan-out goroutines.                    *)
(*                                                                         *)
(* Go strings are TLA+ strings, concatenated with \o.  A Go error is the   *)
(* string of its text; the nil error is Nil.  The collaborators that are   *)
(* not part of the file (HTTP transport, JSON and base64 codecs, currency  *)
(* conversion, aggregation sink) are modelled by their outcomes, which the *)
(* actions draw from small sets.                                           *)
(***************************************************************************)
EXTENDS Integers, Sequences, FiniteSets, TLC

VARIABLES
    Enabled,                  \* b.Enabled
    AuthenticatedAPISupport,  \* b.AuthenticatedAPISupport
    APIKey,                   \* b.APIKey
    APISecret,                \* b.APISecret (the decoded secret)
    EnabledPairs,             \* b.EnabledPairs
    Ticker,                   \* b.Ticker: map from pair symbol to snapshot
    secretRejected,           \* history: SetAPIKeys has seen Base64Decode fail
    authCalls,                \* number of SendHTTPRequest invocations so far
    getCalls,                 \* number of SendHTTPGetRequest invocations so far
    last,                     \* the most recent synchronous call and what it returned
    runPC,                    \* position of the Run driver
    cycle,                    \* number of polling cycles Run has started
    idx,                      \* range index of Run's inner loop
    tasks,                    \* the fan-out goroutines launched so far, by <<cycle, index>>
    sink,                     \* per goroutine, the records it gave to AddExchangeInfo
    lastWrite,                \* history: per key, the snapshot of the latest assignment
    crashed                   \* the Go runtime has aborted the process

clientVars == <<Enabled, AuthenticatedAPISupport, APIKey, APISecret, EnabledPairs,
                secretRejected>>
callVars   == <<authCalls, last>>
pollVars   == <<Ticker, runPC, cycle, idx, tasks, sink, lastWrite, crashed>>
vars == <<Enabled, AuthenticatedAPISupport, APIKey, APISecret, EnabledPairs, Ticker,
          secretRejected, authCalls, getCalls, last, runPC, cycle, idx, tasks, sink,
          lastWrite, crashed>>

----------------------------------------------------------------------------
(* Bounds *)

MaxCalls  == 3   \* transport invocations explored per behaviour
MaxID     == 2   \* order ids are 1..MaxID
MaxOrders == 2   \* longest list of order ids passed to CancelOrder
MaxResp   == 2   \* longest list of sub-responses in a cancel response
MaxCycles == 2   \* polling cycles explored
MaxPrice  == 2   \* prices are 1..MaxPrice

----------------------------------------------------------------------------
(* Constants of the program *)

BTCMARKETS_API_URL         == "https://api.btcmarkets.net"
BTCMARKETS_ACCOUNT_BALANCE == "/account/balance"
BTCMARKETS_ORDER_CREATE    == "/order/create"
BTCMARKETS_ORDER_CANCEL    == "/order/cancel"
BTCMARKETS_ORDER_HISTORY   == "/order/history"
BTCMARKETS_ORDER_OPEN      == "/order/open"
BTCMARKETS_ORDER_DETAIL    == "/order/detail"

Name == "BTC Markets"     \* b.Name as SetDefaults sets it; GetName returns it

Nil == "<nil>"            \* the nil error, and a nil []byte or nil result

GetName == Name

----------------------------------------------------------------------------
(* Input universes *)

APIKeys  == {"key-1"}
\* encoded secrets a configuration may hold: one valid base64 text, two invalid
Secrets  == {"YWJjMTIz", "not base64!", "YWJj*"}
TransportErrors == {"dial tcp: i/o timeout", "connection refused"}
EncodeErrors    == {"json: unsupported value"}
DecodeErrors    == {"invalid character '<' looking for beginning of value"}
ErrorMessages   == {"", "Insufficient funds"}
OrderIDs        == 1..MaxID

Digits == <<"0", "1", "2", "3", "4", "5", "6", "7", "8", "9">>

\* strconv-style rendering of a small natural number
RECURSIVE Itoa(_)
Itoa(n) == IF n < 10 THEN Digits[n + 1] ELSE Itoa(n \div 10) \o Digits[(n % 10) + 1]

SeqsUpTo(S, n) == UNION {[1..k -> S] : k \in 0..n}

----------------------------------------------------------------------------
(* Collaborators *)

\* Base64Decode(s): the decoded bytes, or an error for text outside the alphabet
Base64Decode(s) ==
    IF s = "YWJjMTIz" THEN [result |-> "abc123", err |-> Nil]
    ELSE [result |-> "", err |-> "illegal base64 data"]

\* JSONEncode of a list of order ids: {"orderIds":[1,2]}
RECURSIVE JoinIDs(_)
JoinIDs(ids) ==
    IF Len(ids) = 0 THEN ""
    ELSE IF Len(ids) = 1 THEN Itoa(ids[1])
    ELSE Itoa(ids[1]) \o "," \o JoinIDs(Tail(ids))

EncodeOrderIDs(ids) == "{\"orderIds\":[" \o JoinIDs(ids) \o "]}"

\* A raw HTTP response body: malformed text, or the JSON text of a value.
Malformed == [wellFormed |-> FALSE, value |-> Nil]
WellFormed(v) == [wellFormed |-> TRUE, value |-> v]

\* The result argument of SendAuthenticatedRequest: nil, or a pointer to a
\* value of the caller's schema.
NilTarget == [nil |-> TRUE, value |-> Nil]
Target(v) == [nil |-> FALSE, value |-> v]

\* JSONDecode(raw, &result): on success the target holds the decoded value
\* (a nil result holds nothing the caller can read), on malformed input the
\* target keeps what it held.
JSONDecode(raw, target) ==
    IF raw.wellFormed
    THEN [err |-> Nil, value |-> IF target.nil THEN Nil ELSE raw.value]
    ELSE [err |-> CHOOSE e \in DecodeErrors : TRUE, value |-> target.value]

\* What SendHTTPRequest can return: (body, nil) or ("", err).
TransportOutcomes(Values) ==
    {[err |-> e, raw |-> Malformed] : e \in TransportErrors}
    \cup {[err |-> Nil, raw |-> Malformed]}
    \cup {[err |-> Nil, raw |-> WellFormed(v)] : v \in Values}

\* What JSONEncode can return for a payload text p: (p, nil) or (nil, err).
EncodeOutcomes(p) ==
    {[data |-> p, err |-> Nil]} \cup {[data |-> Nil, err |-> e] : e \in EncodeErrors}

----------------------------------------------------------------------------
(* SendAuthenticatedRequest: one transport call, then one decode.           *)
(* tr is what the transport returns for the request; result is the decode  *)
(* target.                                                                 *)

\* Mutant: the decode is skipped when the caller passes no result.
SendAuthenticatedRequest_SkipsDecodeOnNil(reqType, path, data, result, tr) ==
    LET req == [reqType |-> reqType, url |-> BTCMARKETS_API_URL \o path, body |-> data]
    IN  IF tr.err # Nil
        THEN [err |-> tr.err, req |-> req, transportCalls |-> 1, decodeCalls |-> 0,
              result |-> result.value]
        ELSE IF result.nil
             THEN [err |-> Nil, req |-> req, transportCalls |-> 1, decodeCalls |-> 0,
                   result |-> result.value]
             ELSE LET d == JSONDecode(tr.raw, result)
                  IN  [err |-> d.err, req |-> req, transportCalls |-> 1,
                       decodeCalls |-> 1, result |-> d.value]

\* Mutant: a failed transport call is issued a second time.
SendAuthenticatedRequest_Retries(reqType, path, data, result, tr) ==
    LET req == [reqType |-> reqType, url |-> BTCMARKETS_API_URL \o path, body |-> data]
    IN  IF tr.err # Nil
        THEN [err |-> tr.err, req |-> req, transportCalls |-> 2, decodeCalls |-> 0,
              result |-> result.value]
        ELSE LET d == JSONDecode(tr.raw, result)
             IN  [err |-> d.err, req |-> req, transportCalls |-> 1, decodeCalls |-> 1,
                  result |-> d.value]

SendAuthenticatedRequest(reqType, path, data, result, tr) ==
    LET req == [reqType |-> reqType, url |-> BTCMARKETS_API_URL \o path, body |-> data]
    IN  IF tr.err # Nil
        THEN [err |-> tr.err, req |-> req, transportCalls |-> 1, decodeCalls |-> 0,
              result |-> result.value]
        ELSE LET d == JSONDecode(tr.raw, result)
             IN  [err |-> d.err, req |-> req, transportCalls |-> 1, decodeCalls |-> 1,
                  result |-> d.value]

----------------------------------------------------------------------------
NotSent == "SendAuthenticatedRequest not called"

(* Order management.  Each operator computes what one invocation returns    *)
(* and how often it used the transport and the decoder, from the arguments *)
(* and from what the collaborators answer: enc is JSONEncode's outcome and  *)
(* tr the transport's.                                                      *)

\* JSONEncode of Order's request struct
EncodeOrder(o) ==
    "{\"currency\":\"" \o o.Currency \o "\",\"instrument\":\"" \o o.Instrument
    \o "\",\"price\":" \o Itoa(o.Price) \o ",\"volume\":" \o Itoa(o.Volume)
    \o ",\"orderSide\":\"" \o o.OrderSide \o "\",\"ordertype\":\"" \o o.OrderType
    \o "\",\"clientRequestId\":\"" \o o.ClientRequestId \o "\"}"

\* the zero value of Order's Response struct, and the values a server can send
OrderResponseZero == [Success |-> FALSE, ErrorMessage |-> "", ID |-> 0]
OrderResponses == [Success : BOOLEAN, ErrorMessage : ErrorMessages, ID : 0..MaxID]

ErrUnableToPlace(msg) ==
    GetName \o " Unable to place order. Error message: " \o msg \o "\n"

\* Mutant: the envelope's success flag is not looked at.
OrderCall_NoSuccessCheck(o, enc, tr) ==
    IF enc.err # Nil
    THEN [ret |-> [id |-> 0, err |-> enc.err], sarErr |-> NotSent,
          transportCalls |-> 0, decodeCalls |-> 0]
    ELSE LET r == SendAuthenticatedRequest("POST", BTCMARKETS_ORDER_CREATE, enc.data,
                                           Target(OrderResponseZero), tr)
             resp == r.result
         IN  [ret |-> IF r.err # Nil THEN [id |-> 0, err |-> r.err]
                      ELSE [id |-> resp.ID, err |-> Nil],
              sarErr |-> r.err,
              transportCalls |-> r.transportCalls, decodeCalls |-> r.decodeCalls]

OrderCall(o, enc, tr) ==
    IF enc.err # Nil
    THEN [ret |-> [id |-> 0, err |-> enc.err], sarErr |-> NotSent,
          transportCalls |-> 0, decodeCalls |-> 0]
    ELSE LET r == SendAuthenticatedRequest("POST", BTCMARKETS_ORDER_CREATE, enc.data,
                                           Target(OrderResponseZero), tr)
             resp == r.result
         IN  [ret |-> IF r.err # Nil THEN [id |-> 0, err |-> r.err]
                      ELSE IF ~resp.Success
                           THEN [id |-> 0, err |-> ErrUnableToPlace(resp.ErrorMessage)]
                           ELSE [id |-> resp.ID, err |-> Nil],
              sarErr |-> r.err,
              transportCalls |-> r.transportCalls, decodeCalls |-> r.decodeCalls]

\* CancelOrder's Response struct; of a sub-response the code reads Success
\* (and logs ID); the error code and message of a sub-response are only logged.
CancelResponseZero == [Success |-> FALSE, ErrorMessage |-> "", Responses |-> <<>>]
SubResponses == [Success : BOOLEAN, ID : OrderIDs]
CancelResponses ==
    [Success : BOOLEAN, ErrorMessage : ErrorMessages,
     Responses : SeqsUpTo(SubResponses, MaxResp)]

ErrUnableToCancel(msg) ==
    GetName \o " Unable to cancel order. Error message: " \o msg \o "\n"
ErrUnableToCancelOrders == GetName \o " Unable to cancel order(s)."

\* the loop over resp.Responses: ordersCancelled after the first n of them
RECURSIVE OrdersCancelled(_, _)
OrdersCancelled(responses, n) ==
    IF n = 0 THEN 0
    ELSE OrdersCancelled(responses, n - 1) + (IF responses[n].Success THEN 1 ELSE 0)

\* Mutant: the sub-responses are tallied without looking at the top-level flag.
CancelOrderCall_NoTopLevelCheck(orderID, enc, tr) ==
    IF enc.err # Nil
    THEN [ret |-> [ok |-> FALSE, err |-> enc.err], sarErr |-> NotSent,
          transportCalls |-> 0, decodeCalls |-> 0]
    ELSE LET r == SendAuthenticatedRequest("POST", BTCMARKETS_ORDER_CANCEL, enc.data,
                                           Target(CancelResponseZero), tr)
             resp == r.result
             ordersToBeCancelled == Len(orderID)
             ordersCancelled == OrdersCancelled(resp.Responses, Len(resp.Responses))
         IN  [ret |-> IF r.err # Nil THEN [ok |-> FALSE, err |-> r.err]
                      ELSE IF ordersCancelled = ordersToBeCancelled
                           THEN [ok |-> TRUE, err |-> Nil]
                           ELSE [ok |-> FALSE, err |-> ErrUnableToCancelOrders],
              sarErr |-> r.err,
              transportCalls |-> r.transportCalls, decodeCalls |-> r.decodeCalls]

CancelOrderCall(orderID, enc, tr) ==
    IF enc.err # Nil
    THEN [ret |-> [ok |-> FALSE, err |-> enc.err], sarErr |-> NotSent,
          transportCalls |-> 0, decodeCalls |-> 0]
    ELSE LET r == SendAuthenticatedRequest("POST", BTCMARKETS_ORDER_CANCEL, enc.data,
                                           Target(CancelResponseZero), tr)
             resp == r.result
             ordersToBeCancelled == Len(orderID)
             ordersCancelled == OrdersCancelled(resp.Responses, Len(resp.Responses))
         IN  [ret |-> IF r.err # Nil THEN [ok |-> FALSE, err |-> r.err]
                      ELSE IF ~resp.Success
                           THEN [ok |-> FALSE, err |-> ErrUnableToCancel(resp.ErrorMessage)]
                           ELSE IF ordersCancelled = ordersToBeCancelled
                                THEN [ok |-> TRUE, err |-> Nil]
                                ELSE [ok |-> FALSE, err |-> ErrUnableToCancelOrders],
              sarErr |-> r.err,
              transportCalls |-> r.transportCalls, decodeCalls |-> r.decodeCalls]

\* GetOrders, GetOrderDetail and GetAccountBalance log the error and return nothing.
EncodeOrdersRequest(currency, instrument, limit, since) ==
    "{\"currency\":\"" \o currency \o "\",\"instrument\":\"" \o instrument
    \o "\",\"limit\":" \o Itoa(limit) \o ",\"since\":" \o Itoa(since) \o "}"

FireAndLog(r) ==
    [ret |-> [logged |-> r.err], sarErr |-> r.err,
     transportCalls |-> r.transportCalls, decodeCalls |-> r.decodeCalls]

GetOrdersCall(historic, enc, tr) ==
    IF enc.err # Nil
    THEN [ret |-> [logged |-> enc.err], sarErr |-> NotSent,
          transportCalls |-> 0, decodeCalls |-> 0]
    ELSE LET path == IF historic THEN BTCMARKETS_ORDER_HISTORY ELSE BTCMARKETS_ORDER_OPEN
         IN  FireAndLog(SendAuthenticatedRequest("POST", path, enc.data, NilTarget, tr))

GetOrderDetailCall(orderID, enc, tr) ==
    IF enc.err # Nil
    THEN [ret |-> [logged |-> enc.err], sarErr |-> NotSent,
          transportCalls |-> 0, decodeCalls |-> 0]
    ELSE FireAndLog(SendAuthenticatedRequest("POST", BTCMARKETS_ORDER_DETAIL, enc.data,
                                             NilTarget, tr))

GetAccountBalanceCall(tr) ==
    FireAndLog(SendAuthenticatedRequest("GET", BTCMARKETS_ACCOUNT_BALANCE, Nil,
                                        Target(<<>>), tr))

----------------------------------------------------------------------------
(* Market data fetchers.  SendHTTPGetRequest(url, true, &result) performs   *)
(* the GET and the decode; out is what it answers: an error, or the value   *)
(* it decoded into the result.                                              *)

Symbols == {"BTCAUD", "ETHAUD"}
Sinces  == {"", "12345"}

ZeroTicker == [LastPrice |-> 0, BestBID |-> 0, BestAsk |-> 0]
Tickers == {[LastPrice |-> p, BestBID |-> p, BestAsk |-> p + 1] : p \in 1..MaxPrice}
Orderbooks == {[Asks |-> <<<<p + 1, 1>>>>, Bids |-> <<<<p, 1>>>>] : p \in 1..MaxPrice}
ZeroOrderbook == [Asks |-> <<>>, Bids |-> <<>>]
TradeLists == {<<>>} \cup {<<[TradeID |-> 1, Price |-> p]>> : p \in 1..MaxPrice}

GetOutcomes(Values) ==
    {[err |-> e, value |-> Nil] : e \in TransportErrors \cup DecodeErrors}
    \cup {[err |-> Nil, value |-> v] : v \in Values}

\* what SendHTTPGetRequest can answer to each fetcher
TickerOutcomes    == GetOutcomes(Tickers)
OrderbookOutcomes == GetOutcomes(Orderbooks)
TradesOutcomes    == GetOutcomes(TradeLists)

GetTickerCall(symbol, out) ==
    LET path == "/market/" \o symbol \o "/AUD/tick"
    IN  [ret |-> IF out.err # Nil THEN [ticker |-> ZeroTicker, err |-> out.err]
                 ELSE [ticker |-> out.value, err |-> Nil],
         url |-> BTCMARKETS_API_URL \o path, transportCalls |-> 1]

GetOrderbookCall(symbol, out) ==
    LET path == "/market/" \o symbol \o "/AUD/orderbook"
    IN  [ret |-> IF out.err # Nil THEN [orderbook |-> ZeroOrderbook, err |-> out.err]
                 ELSE [orderbook |-> out.value, err |-> Nil],
         url |-> BTCMARKETS_API_URL \o path, transportCalls |-> 1]

\* Mutant: the since parameter is appended whether or not it is empty.
GetTradesCall_AlwaysAppendsSince(symbol, since, out) ==
    LET path == "/market/" \o symbol \o "/AUD/trades?since=" \o since
    IN  [ret |-> IF out.err # Nil THEN [trades |-> Nil, err |-> out.err]
                 ELSE [trades |-> out.value, err |-> Nil],
         url |-> BTCMARKETS_API_URL \o path, transportCalls |-> 1]

GetTradesCall(symbol, since, out) ==
    LET path == IF Len(since) > 0
                THEN "/market/" \o symbol \o "/AUD/trades?since=" \o since
                ELSE "/market/" \o symbol \o "/AUD/trades"
    IN  [ret |-> IF out.err # Nil THEN [trades |-> Nil, err |-> out.err]
                 ELSE [trades |-> out.value, err |-> Nil],
         url |-> BTCMARKETS_API_URL \o path, transportCalls |-> 1]

----------------------------------------------------------------------------
(* State after construction: SetDefaults has run; the configuration decides *)
(* whether the authenticated API is supported.                              *)

NoCall == [op |-> "none"]
NotCalled == [err |-> "transport not called", raw |-> Malformed]
EmptyMap == [k \in {} |-> ZeroTicker]

DefaultPairs == <<"BTCAUD", "ETHAUD">>

SetDefaults ==
    /\ Enabled = TRUE
    /\ APIKey = ""
    /\ APISecret = ""
    /\ Ticker = EmptyMap
    /\ secretRejected = FALSE
    /\ authCalls = 0
    /\ getCalls = 0
    /\ last = NoCall
    /\ runPC = "idle"
    /\ cycle = 0
    /\ idx = 0
    /\ tasks = EmptyMap
    /\ sink = EmptyMap
    /\ lastWrite = EmptyMap
    /\ crashed = FALSE

Init ==
    /\ SetDefaults
    /\ AuthenticatedAPISupport \in BOOLEAN
    /\ EnabledPairs = DefaultPairs

----------------------------------------------------------------------------
(* Configuration operations *)

SetEnabled ==
    /\ \E enabled \in BOOLEAN : Enabled' = enabled
    /\ UNCHANGED <<AuthenticatedAPISupport, APIKey, APISecret, EnabledPairs,
                   secretRejected, authCalls, getCalls, last, pollVars>>

SetAPIKeys ==
    \E apiKey \in APIKeys, apiSecret \in Secrets :
        IF ~AuthenticatedAPISupport
        THEN UNCHANGED vars
        ELSE LET d == Base64Decode(apiSecret)
             IN  /\ APIKey' = apiKey
                 /\ IF d.err # Nil
                    THEN /\ Enabled' = FALSE
                         /\ secretRejected' = TRUE
                         /\ UNCHANGED APISecret
                    ELSE /\ APISecret' = d.result
                         /\ UNCHANGED <<Enabled, secretRejected>>
                 /\ UNCHANGED <<AuthenticatedAPISupport, EnabledPairs, authCalls,
                                getCalls, last, pollVars>>

----------------------------------------------------------------------------
(* Synchronous operations as actions.  From is the set of authCalls (or     *)
(* getCalls) values from which the operation is explored, the other         *)
(* parameters are the universes its inputs and the collaborators' answers   *)
(* are drawn from.                                                          *)

Record(op, args, enc, tr, c) ==
    [op |-> op, args |-> args, enc |-> enc,
     tr |-> IF c.transportCalls = 0 THEN NotCalled ELSE tr,
     ret |-> c.ret, sarErr |-> c.sarErr,
     transportCalls |-> c.transportCalls, decodeCalls |-> c.decodeCalls]

AuthFrame == UNCHANGED <<clientVars, getCalls, pollVars>>

Order(From, Orders, Outcomes) ==
    /\ authCalls \in From
    /\ \E o \in Orders :
       \E enc \in EncodeOutcomes(EncodeOrder(o)), tr \in Outcomes :
          LET c == OrderCall(o, enc, tr)
          IN  /\ last' = Record("Order", o, enc, tr, c)
              /\ authCalls' = authCalls + c.transportCalls
    /\ AuthFrame

CancelOrder(From, IDLists, Outcomes) ==
    /\ authCalls \in From
    /\ \E orderID \in IDLists :
       \E enc \in EncodeOutcomes(EncodeOrderIDs(orderID)), tr \in Outcomes :
          LET c == CancelOrderCall(orderID, enc, tr)
          IN  /\ last' = Record("CancelOrder", orderID, enc, tr, c)
              /\ authCalls' = authCalls + c.transportCalls
    /\ AuthFrame

GetOrders(From, Outcomes) ==
    /\ authCalls \in From
    /\ \E historic \in BOOLEAN, limit \in {MaxResp}, since \in {0} :
       \E enc \in EncodeOutcomes(EncodeOrdersRequest("AUD", "BTC", limit, since)),
          tr \in Outcomes :
          LET c == GetOrdersCall(historic, enc, tr)
          IN  /\ last' = Record("GetOrders", historic, enc, tr, c)
              /\ authCalls' = authCalls + c.transportCalls
    /\ AuthFrame

GetOrderDetail(From, IDLists, Outcomes) ==
    /\ authCalls \in From
    /\ \E orderID \in IDLists :
       \E enc \in EncodeOutcomes(EncodeOrderIDs(orderID)), tr \in Outcomes :
          LET c == GetOrderDetailCall(orderID, enc, tr)
          IN  /\ last' = Record("GetOrderDetail", orderID, enc, tr, c)
              /\ authCalls' = authCalls + c.transportCalls
    /\ AuthFrame

GetAccountBalance(From, Outcomes) ==
    /\ authCalls \in From
    /\ \E tr \in Outcomes :
          LET c == GetAccountBalanceCall(tr)
          IN  /\ last' = Record("GetAccountBalance", <<>>, [data |-> Nil, err |-> Nil], tr, c)
              /\ authCalls' = authCalls + c.transportCalls
    /\ AuthFrame

GetFrame == UNCHANGED <<clientVars, authCalls, pollVars>>

FetchRecord(op, args, out, c) ==
    [op |-> op, args |-> args, out |-> out, url |-> c.url, ret |-> c.ret,
     transportCalls |-> c.transportCalls]

GetTicker(From) ==
    /\ getCalls \in From
    /\ \E symbol \in Symbols, out \in TickerOutcomes :
          LET c == GetTickerCall(symbol, out)
          IN  /\ last' = FetchRecord("GetTicker", <<symbol>>, out, c)
              /\ getCalls' = getCalls + c.transportCalls
    /\ GetFrame

GetOrderbook(From) ==
    /\ getCalls \in From
    /\ \E symbol \in Symbols, out \in OrderbookOutcomes :
          LET c == GetOrderbookCall(symbol, out)
          IN  /\ last' = FetchRecord("GetOrderbook", <<symbol>>, out, c)
              /\ getCalls' = getCalls + c.transportCalls
    /\ GetFrame

GetTrades(From) ==
    /\ getCalls \in From
    /\ \E symbol \in Symbols, since \in Sinces, out \in TradesOutcomes :
          LET c == GetTradesCall(symbol, since, out)
          IN  /\ last' = FetchRecord("GetTrades", <<symbol, since>>, out, c)
              /\ getCalls' = getCalls + c.transportCalls
    /\ GetFrame

----------------------------------------------------------------------------
(* SpecOrders: one Order or CancelOrder invocation over every argument and  *)
(* every response within the bounds.                                        *)

AllOrders ==
    [Currency : {"AUD"}, Instrument : {"BTC"}, Price : 1..MaxPrice, Volume : {1},
     OrderSide : {"Bid", "Ask"}, OrderType : {"Limit"}, ClientRequestId : {"req-1"}]
AllIDLists == SeqsUpTo(OrderIDs, MaxOrders)

\* what the transport can answer to an order and to a cancellation
OrderOutcomes  == TransportOutcomes(OrderResponses)
CancelOutcomes == TransportOutcomes(CancelResponses)
FirstCall == {0}

NextOrders ==
    \/ Order(FirstCall, AllOrders, OrderOutcomes)
    \/ CancelOrder(FirstCall, AllIDLists, CancelOutcomes)

SpecOrders == Init /\ [][NextOrders]_vars

----------------------------------------------------------------------------
(* SpecClient: sequences of configuration changes and calls.                *)

BriefOrders == {o \in AllOrders : o.Price = 1 /\ o.OrderSide = "Bid"}
BriefIDLists == {<<1>>}
BriefOrderResponses ==
    {[Success |-> TRUE, ErrorMessage |-> "", ID |-> 1],
     [Success |-> FALSE, ErrorMessage |-> "Insufficient funds", ID |-> 0]}
BriefCancelResponses ==
    {[Success |-> TRUE, ErrorMessage |-> "", Responses |-> <<[Success |-> TRUE, ID |-> 1]>>],
     [Success |-> FALSE, ErrorMessage |-> "Insufficient funds", Responses |-> <<>>]}
AnyJSON == {"[]"}
Balances == {<<>>, <<[Balance |-> 1, PendingFunds |-> 0, Currency |-> "AUD"]>>}

BriefOrderOutcomes  == TransportOutcomes(BriefOrderResponses)
BriefCancelOutcomes == TransportOutcomes(BriefCancelResponses)
JSONOutcomes        == TransportOutcomes(AnyJSON)
BalanceOutcomes     == TransportOutcomes(Balances)

CallsLeft == 0..(MaxCalls - 1)

NextClient ==
    \/ SetEnabled
    \/ SetAPIKeys
    \/ Order(CallsLeft, BriefOrders, BriefOrderOutcomes)
    \/ CancelOrder(CallsLeft, BriefIDLists, BriefCancelOutcomes)
    \/ GetOrders(CallsLeft, JSONOutcomes)
    \/ GetOrderDetail(CallsLeft, BriefIDLists, JSONOutcomes)
    \/ GetAccountBalance(CallsLeft, BalanceOutcomes)
    \/ GetTicker(CallsLeft)
    \/ GetOrderbook(CallsLeft)
    \/ GetTrades(CallsLeft)

SpecClient == Init /\ [][NextClient]_vars

----------------------------------------------------------------------------
(* The ticker poller.  Run is the driver; each `go func()` of a cycle is a  *)
(* task, named by the cycle and the range index that launched it.          *)
(*                                                                         *)
(* b.Ticker is a plain Go map written by the tasks without a lock.  A      *)
(* write that overlaps another task's write is a data race: the runtime    *)
(* may abort the process ("concurrent map writes"), the entry may be       *)
(* lost, or the write may land; when the other task assigns the same key, *)
(* the two copies of the snapshot into the entry may interleave and leave  *)
(* fields of both.  A task is inside the assignment between                *)
(* TaskFetchReturn and TaskWriteEnd.                                       *)

Fragments == {"BTC", "ETH", "AUD", "USD"}

\* currency[0:3] and currency[3:]
Slice03(str) == CHOOSE p \in Fragments : Len(p) = 3 /\ \E q \in Fragments : p \o q = str
Slice3(str)  == CHOOSE q \in Fragments : \E p \in Fragments : Len(p) = 3 /\ p \o q = str

\* ConvertCurrency(amount, "AUD", "USD"): the converted amount, or an error
\* (and no usable amount) when the rate lookup fails.
UsdPerAud == 2
ConvertCurrency(amount, conv) ==
    IF conv = "ok" THEN [amount |-> amount * UsdPerAud, err |-> Nil]
    ELSE [amount |-> 0, err |-> "currency conversion failed"]
ConvertOutcomes == {"ok", "error"}

\* the arguments of one AddExchangeInfo call
ExchangeInfo(name, base, quote, price, volume) ==
    [exchange |-> name, base |-> base, quote |-> quote, price |-> price,
     volume |-> volume]

MapStore(m, k, v) == [x \in (DOMAIN m) \cup {k} |-> IF x = k THEN v ELSE m[x]]

TaskIDs == DOMAIN tasks
Writing == {t \in TaskIDs : tasks[t].pc = "writing"}
\* the tasks inside an assignment to the key of task t
SameKey(t) == {u \in Writing : u # t /\ tasks[u].currency = tasks[t].currency}

DriverFrame == UNCHANGED <<clientVars, authCalls, last, Ticker, sink, lastWrite, crashed>>
TaskFrame   == UNCHANGED <<clientVars, authCalls, getCalls, last, runPC, cycle, idx>>

\* Run is invoked (the verbose log lines change nothing).
RunStart ==
    /\ ~crashed
    /\ runPC = "idle"
    /\ runPC' = "check"
    /\ UNCHANGED <<cycle, idx, tasks, getCalls>>
    /\ DriverFrame

\* `for b.Enabled`: the flag is read at the top of each cycle only.
RunCheck ==
    /\ ~crashed
    /\ runPC = "check"
    /\ IF Enabled
       THEN /\ cycle < MaxCycles
            /\ cycle' = cycle + 1
            /\ idx' = 1
            /\ runPC' = IF Len(EnabledPairs) = 0 THEN "sleep" ELSE "launch"
       ELSE /\ runPC' = "returned"
            /\ UNCHANGED <<cycle, idx>>
    /\ UNCHANGED <<tasks, getCalls>>
    /\ DriverFrame

\* One iteration of `for _, x := range b.EnabledPairs`: the goroutine is
\* started and its GetTicker request goes out.
RunLaunch ==
    /\ ~crashed
    /\ runPC = "launch"
    /\ LET currency == EnabledPairs[idx]
           t == <<cycle, idx>>
       IN  /\ tasks' = MapStore(tasks, t, [pc |-> "fetching", currency |-> currency,
                                           ticker |-> ZeroTicker, raced |-> FALSE,
                                           racedKey |-> FALSE])
           /\ sink' = MapStore(sink, t, <<>>)
    /\ getCalls' = getCalls + 1
    /\ idx' = idx + 1
    /\ runPC' = IF idx = Len(EnabledPairs) THEN "sleep" ELSE "launch"
    /\ UNCHANGED <<clientVars, authCalls, last, Ticker, cycle, lastWrite, crashed>>

\* time.Sleep returns
RunWake ==
    /\ ~crashed
    /\ runPC = "sleep"
    /\ runPC' = "check"
    /\ UNCHANGED <<cycle, idx, tasks, getCalls>>
    /\ DriverFrame

\* The snapshots the exchange serves to the fetches of one polling cycle: the
\* market moves from one polling interval to the next.
ServedInCycle(c) == {tk \in Tickers : tk.LastPrice = ((c - 1) % MaxPrice) + 1}

\* GetTicker returns in task t: on error the task logs and returns; otherwise
\* it enters the assignment b.Ticker[currency] = ticker, racing with every
\* task that is inside the assignment at that moment.
TaskFetchReturn(t) ==
    /\ ~crashed
    /\ tasks[t].pc = "fetching"
    /\ \E out \in GetOutcomes(ServedInCycle(t[1])) :
          LET c == GetTickerCall(tasks[t].currency, out)
          IN  tasks' = IF c.ret.err # Nil
                       THEN [tasks EXCEPT ![t].pc = "failed"]
                       ELSE [u \in TaskIDs |->
                               IF u = t
                               THEN [tasks[u] EXCEPT !.pc = "writing",
                                                     !.ticker = c.ret.ticker,
                                                     !.raced = (Writing # {}),
                                                     !.racedKey = (SameKey(t) # {})]
                               ELSE IF u \in Writing
                                    THEN [tasks[u] EXCEPT
                                            !.raced = TRUE,
                                            !.racedKey = (@ \/ u \in SameKey(t))]
                                    ELSE tasks[u]]
    /\ UNCHANGED <<Ticker, sink, lastWrite, crashed>>
    /\ TaskFrame

\* the outcomes of the assignment in task t
WriteOutcomes(t) ==
    IF ~tasks[t].raced THEN {"stored"}
    ELSE IF tasks[t].racedKey /\ tasks[t].currency \in DOMAIN Ticker
         THEN {"stored", "lost", "fatal", "torn"}
         ELSE {"stored", "lost", "fatal"}

\* an entry that two interleaved copies leave behind: the first word of one
\* snapshot, the rest of the other
TornTicker(own, other) ==
    [LastPrice |-> own.LastPrice, BestBID |-> other.BestBID, BestAsk |-> other.BestAsk]

\* task t leaves the map assignment
TaskWriteEnd(t) ==
    /\ ~crashed
    /\ tasks[t].pc = "writing"
    /\ \E outcome \in WriteOutcomes(t) :
          /\ Ticker' = IF outcome = "stored"
                       THEN MapStore(Ticker, tasks[t].currency, tasks[t].ticker)
                       ELSE IF outcome = "torn"
                       THEN MapStore(Ticker, tasks[t].currency,
                                     TornTicker(tasks[t].ticker,
                                                Ticker[tasks[t].currency]))
                       ELSE Ticker
          /\ lastWrite' = IF outcome = "fatal" THEN lastWrite
                          ELSE MapStore(lastWrite, tasks[t].currency, tasks[t].ticker)
          /\ crashed' = (outcome = "fatal")
          /\ tasks' = [tasks EXCEPT ![t].pc = IF outcome = "fatal" THEN "writing"
                                              ELSE "written"]
    /\ UNCHANGED sink
    /\ TaskFrame

\* the three conversions (their errors are dropped), the log line and the two
\* AddExchangeInfo calls; the goroutine ends
TaskForward(t) ==
    /\ ~crashed
    /\ tasks[t].pc = "written"
    /\ \E conv \in ConvertOutcomes :
          LET currency == tasks[t].currency
              ticker == tasks[t].ticker
              BTCMarketsLastUSD == ConvertCurrency(ticker.LastPrice, conv).amount
          IN  sink' = [sink EXCEPT ![t] =
                          <<ExchangeInfo(GetName, Slice03(currency), Slice3(currency),
                                         ticker.LastPrice, 0),
                            ExchangeInfo(GetName, Slice03(currency), "USD",
                                         BTCMarketsLastUSD, 0)>>]
    /\ tasks' = [tasks EXCEPT ![t].pc = "done", ![t].ticker = ZeroTicker,
                              ![t].raced = FALSE, ![t].racedKey = FALSE]
    /\ UNCHANGED <<Ticker, lastWrite, crashed>>
    /\ TaskFrame

\* SetEnabled called from outside while the poller runs
Disable ==
    /\ ~crashed
    /\ SetEnabled

\* configurations of b.EnabledPairs: none, one pair, two pairs, one pair twice
PairLists == {<<>>, <<"BTCAUD">>, <<"BTCAUD", "ETHAUD">>, <<"BTCAUD", "BTCAUD">>}

InitPoll ==
    /\ SetDefaults
    /\ AuthenticatedAPISupport = FALSE
    /\ EnabledPairs \in PairLists

NextPoll ==
    \/ RunStart
    \/ RunCheck
    \/ RunLaunch
    \/ RunWake
    \/ Disable
    \/ \E t \in TaskIDs : TaskFetchReturn(t)
    \/ \E t \in TaskIDs : TaskWriteEnd(t)
    \/ \E t \in TaskIDs : TaskForward(t)

SpecPoll == InitPoll /\ [][NextPoll]_vars

\* SpecPollLive: the poller under the Go scheduler.  A goroutine that can run
\* is eventually run: the driver's loop steps (the sleep is finite) and a
\* task's steps after its fetch has returned.  Nothing makes a transport call
\* return (TaskFetchReturn), Run be invoked or SetEnabled be called.
\* every task id a behaviour can create
AllTaskIDs == (1..MaxCycles) \X (1..2)

SchedulerFairness ==
    /\ WF_vars(RunCheck)
    /\ WF_vars(RunLaunch)
    /\ WF_vars(RunWake)
    /\ \A t \in AllTaskIDs :
          /\ WF_vars(t \in TaskIDs /\ TaskWriteEnd(t))
          /\ WF_vars(t \in TaskIDs /\ TaskForward(t))

SpecPollLive == InitPoll /\ [][NextPoll]_vars /\ SchedulerFairness

----------------------------------------------------------------------------
(* Request signing: the first half of SendAuthenticatedRequest (the nonce,  *)
(* the canonical string, its HMAC and the headers).                        *)
(*                                                                         *)
(* time.Now().UnixNano() is an int64.  A value is held in three decimal    *)
(* limbs of six digits and a sign: +/-(hi * 10^12 + mid * 10^6 + lo).      *)

LimbBase == 1000000

Nanos(neg, hi, mid, lo) == [neg |-> neg, hi |-> hi, mid |-> mid, lo |-> lo]

\* the decimal digits of a natural number, most significant first
RECURSIVE DigitsOf(_)
DigitsOf(k) ==
    IF k < 10 THEN <<Digits[k + 1]>>
    ELSE Append(DigitsOf(k \div 10), Digits[(k % 10) + 1])

\* the digits of a limb that is not the leading one, zeros included
PadLimb(k) == Tail(DigitsOf(LimbBase + k))

\* strconv.FormatInt(n, 10), as the sequence of its characters
FormatInt(n) ==
    LET magnitude == IF n.hi > 0 THEN DigitsOf(n.hi) \o PadLimb(n.mid) \o PadLimb(n.lo)
                     ELSE IF n.mid > 0 THEN DigitsOf(n.mid) \o PadLimb(n.lo)
                     ELSE DigitsOf(n.lo)
    IN  IF n.neg THEN <<"-">> \o magnitude ELSE magnitude

\* the string made of a sequence of characters
RECURSIVE Join(_)
Join(chars) == IF Len(chars) = 0 THEN "" ELSE chars[1] \o Join(Tail(chars))

NonceLen == 13

\* strconv.FormatInt(now, 10)[0:13]: slicing a string shorter than 13
\* characters panics (slice bounds out of range)
Nonce(now) ==
    LET str == FormatInt(now)
    IN  IF Len(str) < NonceLen
        THEN [panic |-> TRUE, chars |-> <<>>, nonce |-> ""]
        ELSE [panic |-> FALSE, chars |-> SubSeq(str, 1, NonceLen),
              nonce |-> Join(SubSeq(str, 1, NonceLen))]

\* GetHMAC and Base64Encode are injective: the value names what went in
HASH_SHA512 == "SHA512"
GetHMAC(hash, input, key) == [hash |-> hash, input |-> input, key |-> key]
Base64Encode(bytes) == [base64 |-> bytes]

\* the bytes of bytes.NewBuffer(data): none for a nil slice
NewBuffer(data) == IF data = Nil THEN "" ELSE data

\* Mutant: without a body the canonical string stops after the nonce.
SignRequest_NoTrailingNewline(path, data, now, apiKey, apiSecret) ==
    LET n == Nonce(now)
        request == IF data # Nil THEN path \o "\n" \o n.nonce \o "\n" \o data
                   ELSE path \o "\n" \o n.nonce
        hmac == GetHMAC(HASH_SHA512, request, apiSecret)
    IN  [panic |-> n.panic, nonce |-> n.nonce, chars |-> n.chars, request |-> request,
         hmac |-> hmac,
         headers |-> [Accept |-> "application/json", AcceptCharset |-> "UTF-8",
                      ContentType |-> "application/json", apikey |-> apiKey,
                      timestamp |-> n.nonce, signature |-> Base64Encode(hmac)]]

\* Mutant: the timestamp header carries the whole clock reading, not the nonce.
SignRequest_FullTimestampHeader(path, data, now, apiKey, apiSecret) ==
    LET n == Nonce(now)
        request == IF data # Nil THEN path \o "\n" \o n.nonce \o "\n" \o data
                   ELSE path \o "\n" \o n.nonce \o "\n"
        hmac == GetHMAC(HASH_SHA512, request, apiSecret)
    IN  [panic |-> n.panic, nonce |-> n.nonce, chars |-> n.chars, request |-> request,
         hmac |-> hmac,
         headers |-> [Accept |-> "application/json", AcceptCharset |-> "UTF-8",
                      ContentType |-> "application/json", apikey |-> apiKey,
                      timestamp |-> Join(FormatInt(now)),
                      signature |-> Base64Encode(hmac)]]

\* lines 352-373: nonce, canonical string, HMAC and headers
SignRequest(path, data, now, apiKey, apiSecret) ==
    LET n == Nonce(now)
        request == IF data # Nil THEN path \o "\n" \o n.nonce \o "\n" \o data
                   ELSE path \o "\n" \o n.nonce \o "\n"
        hmac == GetHMAC(HASH_SHA512, request, apiSecret)
    IN  [panic |-> n.panic, nonce |-> n.nonce, chars |-> n.chars, request |-> request,
         hmac |-> hmac,
         headers |-> [Accept |-> "application/json", AcceptCharset |-> "UTF-8",
                      ContentType |-> "application/json", apikey |-> apiKey,
                      timestamp |-> n.nonce, signature |-> Base64Encode(hmac)]]

\* One invocation of SendAuthenticatedRequest with the clock reading now: it
\* panics at the slice, or signs, sends and decodes.  sent is what
\* SendHTTPRequest was given.
SendAuthenticated(From, Types, Paths, Bodies, Clocks, Outcomes) ==
    /\ authCalls \in From
    /\ \E reqType \in Types, path \in Paths, data \in Bodies, now \in Clocks,
          tr \in Outcomes :
          LET sig == SignRequest(path, data, now, APIKey, APISecret)
              r == SendAuthenticatedRequest(reqType, path, data, NilTarget, tr)
              args == [reqType |-> reqType, path |-> path, data |-> data, now |-> now]
          IN  IF sig.panic
              THEN /\ last' = [op |-> "SendAuthenticatedRequest", args |-> args,
                               panic |-> TRUE]
                   /\ UNCHANGED authCalls
              ELSE /\ last' = [op |-> "SendAuthenticatedRequest", args |-> args,
                               panic |-> FALSE, nonce |-> sig.nonce,
                               chars |-> sig.chars, hmac |-> sig.hmac,
                               sent |-> [reqType |-> r.req.reqType, url |-> r.req.url,
                                         headers |-> sig.headers,
                                         body |-> NewBuffer(r.req.body)],
                               tr |-> tr, err |-> r.err,
                               transportCalls |-> r.transportCalls]
                   /\ authCalls' = authCalls + r.transportCalls
    /\ AuthFrame

\* SpecSign: a configured client and one signed request, over the clock.
\* Clock readings: the epoch, the largest 12-digit and the smallest 13-digit
\* value, a time in 2016, the largest int64, and -1, a time in 1930 and the
\* smallest int64.
ClockReadings ==
    {Nanos(FALSE, 0, 0, 0), Nanos(FALSE, 0, 999999, 999999), Nanos(FALSE, 1, 0, 0),
     Nanos(FALSE, 1478073, 600123, 456789), Nanos(FALSE, 9223372, 36854, 775807),
     Nanos(TRUE, 0, 0, 1), Nanos(TRUE, 1234567, 890123, 456789),
     Nanos(TRUE, 9223372, 36854, 775808)}
RequestTypes == {"GET", "POST"}
SignedPaths == {BTCMARKETS_ORDER_CREATE, BTCMARKETS_ORDER_DETAIL, BTCMARKETS_ACCOUNT_BALANCE}
SignedBodies == {Nil, "", EncodeOrderIDs(<<1, MaxID>>)}

InitSign ==
    /\ SetDefaults
    /\ AuthenticatedAPISupport = TRUE
    /\ EnabledPairs = DefaultPairs

NextSign ==
    \/ SetAPIKeys
    \/ SendAuthenticated(FirstCall, RequestTypes, SignedPaths, SignedBodies,
                         ClockReadings, JSONOutcomes)

SpecSign == InitSign /\ [][NextSign]_vars

----------------------------------------------------------------------------
(* Properties of the authenticated operations *)

AuthOps  == {"Order", "CancelOrder", "GetOrders", "GetOrderDetail", "GetAccountBalance"}
FetchOps == {"GetTicker", "GetOrderbook", "GetTrades"}

\* the last call reached the server and its response decoded into a value
Decoded == last.transportCalls = 1 /\ last.tr.err = Nil /\ last.tr.raw.wellFormed
Envelope == last.tr.raw.value

\* C1: once SetAPIKeys has seen the secret fail to decode, the client is
\* disabled at that moment and no later step of an authenticated operation
\* invokes the HTTP transport.
C1_NoAuthCallAfterRejectedSecret ==
    /\ [][(~secretRejected /\ secretRejected') => ~Enabled']_vars
    /\ [][secretRejected => authCalls' = authCalls]_vars

\* C2: a cancel response with top-level success in which at least one
\* sub-response reports failure makes CancelOrder return (false, error).
C2_PartialCancelFails ==
    (/\ last.op = "CancelOrder"
     /\ Decoded
     /\ Envelope.Success
     /\ \E j \in 1..Len(Envelope.Responses) : ~Envelope.Responses[j].Success)
    => (last.ret.ok = FALSE /\ last.ret.err # Nil)

\* C3: CancelOrder returns (true, nil) only if every requested id has a
\* sub-response with that id and success = true.
C3_SuccessOnlyIfEveryIdCancelled ==
    (last.op = "CancelOrder" /\ last.ret.ok /\ last.ret.err = Nil)
    => (/\ Decoded
        /\ \A i \in 1..Len(last.args) :
              \E j \in 1..Len(Envelope.Responses) :
                 /\ Envelope.Responses[j].ID = last.args[i]
                 /\ Envelope.Responses[j].Success)

\* C4: when transport and decoding succeed, Order returns id 0 and an error
\* carrying the envelope's errorMessage if success = false, and the envelope's
\* id with a nil error if success = true; a nil error is returned in no other case.
C4_OrderRejected ==
    last.op = "Order" =>
       /\ (Decoded /\ ~Envelope.Success) =>
             /\ last.ret.id = 0
             /\ last.ret.err = GetName \o " Unable to place order. Error message: "
                                \o Envelope.ErrorMessage \o "\n"
       /\ (Decoded /\ Envelope.Success) =>
             (last.ret.id = Envelope.ID /\ last.ret.err = Nil)
       /\ last.ret.err = Nil => (Decoded /\ Envelope.Success)

C4_Witness ==
    /\ last.op = "Order"
    /\ Decoded
    /\ ~Envelope.Success
    /\ Envelope.ErrorMessage = "Insufficient funds"
    /\ Envelope.ID = MaxID
    /\ last.ret.id = 0
    /\ last.ret.err # Nil

\* C5: when the decoded cancel response has top-level success = false,
\* CancelOrder fails with an error carrying the response's errorMessage whatever
\* the sub-responses say, and that error differs from the partial-cancel error.
C5_CancelRejected ==
    (last.op = "CancelOrder" /\ Decoded /\ ~Envelope.Success)
    => /\ last.ret.ok = FALSE
       /\ last.ret.err = GetName \o " Unable to cancel order. Error message: "
                          \o Envelope.ErrorMessage \o "\n"
       /\ last.ret.err # ErrUnableToCancelOrders

C5_Witness ==
    /\ last.op = "CancelOrder"
    /\ Decoded
    /\ ~Envelope.Success
    /\ Len(last.args) = MaxOrders
    /\ Len(Envelope.Responses) = Len(last.args)
    /\ \A j \in 1..Len(Envelope.Responses) :
          Envelope.Responses[j].Success /\ Envelope.Responses[j].ID = last.args[j]
    /\ last.ret.ok = FALSE

\* C6: SendAuthenticatedRequest returns a transport error unchanged without
\* decoding; after a successful transport call it always decodes, with or
\* without a result, and returns the decode error; it returns nil only when
\* both succeeded.
C6_ErrorsPropagate ==
    (last.op \in AuthOps /\ last.transportCalls > 0)
    => /\ last.tr.err # Nil => (last.sarErr = last.tr.err /\ last.decodeCalls = 0)
       /\ last.tr.err = Nil => last.decodeCalls = 1
       /\ (last.tr.err = Nil /\ ~last.tr.raw.wellFormed) => last.sarErr \in DecodeErrors
       /\ last.sarErr = Nil <=> (last.tr.err = Nil /\ last.tr.raw.wellFormed)

C6_Witness ==
    /\ last.op = "GetOrders"
    /\ last.tr.err = Nil
    /\ ~last.tr.raw.wellFormed
    /\ last.decodeCalls = 1
    /\ last.ret.logged \in DecodeErrors

\* C7: a step of an authenticated operation invokes the transport at most
\* once and a step of a market-data fetch exactly once, whether the call
\* succeeds or fails.
\* a step is a market-data fetch when it leaves a fetch in last and changes
\* last or the count of GET calls (no other operation does either)
FetchStep ==
    /\ last'.op \in FetchOps
    /\ (last' # last \/ getCalls' # getCalls)

C7_NoRetry ==
    [][/\ authCalls' \in {authCalls, authCalls + 1}
       /\ getCalls' \in {getCalls, getCalls + 1}
       /\ FetchStep => getCalls' = getCalls + 1
       /\ last'.op \in AuthOps \cup FetchOps => last'.transportCalls <= 1]_vars

C7_Witness ==
    /\ last.op = "CancelOrder"
    /\ last.tr.err \in TransportErrors
    /\ last.transportCalls = 1
    /\ authCalls = 1
    /\ getCalls = 1

----------------------------------------------------------------------------
(* Properties of the poller *)

Pairs == {EnabledPairs[i] : i \in 1..Len(EnabledPairs)}
CycleTasks(c) == {<<c, i>> : i \in 1..Len(EnabledPairs)}
Finished(t) == tasks[t].pc \in {"done", "failed"}
\* the fetch of t succeeded and t has not reached the end of the goroutine
Unfinished(t) == tasks[t].pc \in {"writing", "written"}
CycleFinished(c) ==
    /\ CycleTasks(c) \subseteq TaskIDs
    /\ \A t \in CycleTasks(c) : Finished(t)

\* C8: once every task of a polling cycle has finished, the mapping (empty
\* at the start) has entries for exactly the enabled pairs, each the snapshot
\* most recently written for its key.
C8_ExactlyEnabledPairs ==
    \A c \in 1..cycle :
       CycleFinished(c) =>
          /\ DOMAIN Ticker = Pairs
          /\ \A k \in DOMAIN Ticker : Ticker[k] = lastWrite[k]

\* C8, the case most favourable to the claim: the only cycle so far has
\* finished, every fetch succeeded, and still an enabled pair has no entry.
C8_EntryLostWithAllFetchesOk ==
    /\ cycle = 1
    /\ CycleTasks(1) \subseteq TaskIDs
    /\ \A t \in CycleTasks(1) : tasks[t].pc = "done"
    /\ DOMAIN Ticker # Pairs

\* C9: a task whose fetch fails leaves the mapping and the sink as they are
\* and forwards nothing; every other task of its cycle whose fetch succeeds
\* is not stopped, and has its entry in the mapping and its two records in the
\* sink when it ends.
FailedIn(c) == \E u \in TaskIDs : u[1] = c /\ tasks[u].pc = "failed"

C9_FailureIsolated ==
    /\ [](\A t \in TaskIDs : tasks[t].pc = "failed" => sink[t] = <<>>)
    /\ [][\A t \in TaskIDs :
             (tasks[t].pc = "fetching" /\ tasks'[t].pc = "failed")
             => (Ticker' = Ticker /\ sink' = sink)]_vars
    /\ [](\A t \in TaskIDs :
             (FailedIn(t[1]) /\ tasks[t].pc = "done")
             => (Len(sink[t]) = 2 /\ tasks[t].currency \in DOMAIN Ticker))
    /\ [](\A t \in TaskIDs : (FailedIn(t[1]) /\ Unfinished(t)) => ~crashed)

\* C10: the driver reads the flag only at the top of a cycle: a check that
\* finds it false ends Run and nothing is launched afterwards; a cycle that
\* began launching launches a task for every enabled pair; and with the flag
\* false the tasks already launched are not stopped and, when they end after a
\* successful fetch, have written their entry and forwarded their two records.
C10_DisableAtTopOfCycle ==
    /\ [][(runPC = "check" /\ ~Enabled /\ runPC' # runPC) => runPC' = "returned"]_vars
    /\ [][runPC = "returned" => runPC' = "returned"]_vars
    /\ [][DOMAIN tasks' # DOMAIN tasks => (runPC = "launch" /\ runPC' # "returned")]_vars
    /\ [](runPC \in {"sleep", "check", "returned"}
            => \A c \in 1..cycle : CycleTasks(c) \subseteq TaskIDs)
    /\ [](~Enabled =>
            \A t \in TaskIDs :
               /\ tasks[t].pc = "done"
                    => (Len(sink[t]) = 2 /\ tasks[t].currency \in DOMAIN Ticker)
               /\ Unfinished(t) => ~crashed)

\* C11: the driver never waits on the tasks: while the client stays enabled
\* the driver leaves its sleep and starts the next cycle, and finishes
\* launching it, whatever the tasks of earlier cycles are doing (their fetch
\* may never return); and a task whose own fetch has returned goes on to the
\* end of the goroutine whatever the other tasks are doing.
C11_DriverNeverWaits ==
    /\ \A c \in 1..(MaxCycles - 1) :
          (runPC = "sleep" /\ cycle = c) ~> (cycle > c \/ ~Enabled)
    /\ (runPC = "launch") ~> (runPC = "sleep")
    /\ \A t \in AllTaskIDs :
          (t \in TaskIDs /\ Unfinished(t)) ~> (t \in TaskIDs /\ tasks[t].pc = "done")

\* C11, the case of the claim: the driver is in its second cycle while every
\* fetch of the first cycle is still outstanding.
C11_AllFetchesHungDriverInNextCycle ==
    /\ cycle = 2
    /\ Len(EnabledPairs) = 2
    /\ \A t \in CycleTasks(1) : t \in TaskIDs /\ tasks[t].pc = "fetching"
    /\ <<2, 1>> \in TaskIDs

\* task t has executed (or is executing) its assignment b.Ticker[currency] = ticker
Assigns(t) == tasks[t].pc \in {"writing", "written", "done"}

\* C12: within one polling cycle no key of the mapping is written by two
\* different tasks, whatever list of enabled pairs is configured.
C12_DisjointKeysPerCycle ==
    \A t \in TaskIDs : \A u \in TaskIDs :
       (t # u /\ t[1] = u[1] /\ Assigns(t) /\ Assigns(u))
       => tasks[t].currency # tasks[u].currency

\* C12, the same for the lists in which no pair occurs twice
C12_DisjointIfPairsDistinct ==
    Cardinality(Pairs) = Len(EnabledPairs) => C12_DisjointKeysPerCycle

\* C13: in every execution the entry of a key is the snapshot of whichever
\* task wrote that key last (last-write-wins, not cycle-ordered).
C13_LastWriteWins ==
    \A k \in DOMAIN lastWrite : k \in DOMAIN Ticker /\ Ticker[k] = lastWrite[k]

\* C13, the overlap the claim describes: the tasks of cycle 1 and cycle 2 for
\* the same pair have both ended, the task of cycle 1 assigned last, and the
\* entry holds the snapshot of cycle 1 although cycle 2 fetched a newer one.
C13_OlderCycleOverwrites ==
    \E t \in TaskIDs : \E u \in TaskIDs :
       /\ t[1] = 1 /\ u[1] = 2
       /\ tasks[t].currency = tasks[u].currency
       /\ tasks[t].pc = "done" /\ tasks[u].pc = "done"
       /\ sink[t][1].price # sink[u][1].price
       /\ tasks[t].currency \in DOMAIN Ticker
       /\ Ticker[tasks[t].currency].LastPrice = sink[t][1].price
       /\ lastWrite[tasks[t].currency].LastPrice = sink[t][1].price

----------------------------------------------------------------------------
(* Properties of request signing *)

\* the last step was a SendAuthenticatedRequest that got past the nonce
Signed == last.op = "SendAuthenticatedRequest" /\ ~last.panic

\* C14: what SendAuthenticatedRequest hands to the HMAC is exactly
\* path, newline, nonce, newline, body when a body is present (the body text
\* unmodified), and exactly path, newline, nonce, newline when it is absent.
C14_CanonicalString ==
    Signed =>
       LET path == last.args.path
           data == last.args.data
       IN  /\ data # Nil => last.hmac.input = path \o "\n" \o last.nonce \o "\n" \o data
           /\ data = Nil => last.hmac.input = path \o "\n" \o last.nonce \o "\n"
           /\ Len(last.hmac.input)
                 = Len(path) + 1 + Len(last.nonce) + 1 + (IF data = Nil THEN 0 ELSE Len(data))

C14_Witness ==
    /\ Signed
    /\ last.args.data = Nil
    /\ last.hmac.input = "/account/balance\n1478073600123\n"

DecimalDigits == {Digits[i] : i \in 1..Len(Digits)}

\* C15: for every reading of the nanosecond clock an invocation of
\* SendAuthenticatedRequest produces a nonce, and the nonce is a string of
\* exactly 13 characters, all of them decimal digits.
C15_NonceThirteenDigits ==
    last.op = "SendAuthenticatedRequest" =>
       /\ ~last.panic
       /\ Len(last.nonce) = 13
       /\ Join(last.chars) = last.nonce
       /\ \A i \in 1..Len(last.chars) : last.chars[i] \in DecimalDigits

\* C15 for the clock readings from 10^12 ns on (1970-01-01 00:16:40 UTC)
C15_NonceThirteenDigitsLateClock ==
    (/\ last.op = "SendAuthenticatedRequest"
     /\ ~last.args.now.neg
     /\ last.args.now.hi > 0)
    => C15_NonceThirteenDigits

----------------------------------------------------------------------------
(* Properties of the market-data fetchers *)

\* the URL of a trades request before any query string
TradesURL(symbol) == "https://api.btcmarkets.net/market/" \o symbol \o "/AUD/trades"

\* C16: for every symbol, GetTrades with an empty since requests the trades
\* path with no query string at all, and with a non-empty since requests it
\* with the single query parameter since=<since>, the value as given.
C16_TradesPath ==
    last.op = "GetTrades" =>
       LET symbol == last.args[1]
           since == last.args[2]
       IN  /\ since = "" =>
                /\ last.url = TradesURL(symbol)
                /\ Len(last.url) = Len(TradesURL(symbol))
           /\ since # "" =>
                /\ last.url = TradesURL(symbol) \o "?since=" \o since
                /\ Len(last.url) = Len(TradesURL(symbol)) + Len("?since=") + Len(since)

C16_Witness ==
    /\ last.op = "GetTrades"
    /\ last.args = <<"ETHAUD", "">>
    /\ last.url = "https://api.btcmarkets.net/market/ETHAUD/AUD/trades"
    /\ last.transportCalls = 1

----------------------------------------------------------------------------
(* Properties of the ticker mapping *)

\* the snapshots that successful GetTicker calls for key k have returned: a
\* task holds its snapshot until it ends, and a task that ended has forwarded
\* its last price in its first sink record
FetchedFor(k) ==
    {tk \in Tickers :
        \E t \in TaskIDs :
           /\ tasks[t].currency = k
           /\ \/ tasks[t].pc \in {"writing", "written"} /\ tasks[t].ticker = tk
              \/ tasks[t].pc = "done" /\ sink[t][1].price = tk.LastPrice}

\* C17: the key set of the mapping never shrinks, every key present is an
\* enabled pair, and every stored value is a snapshot that a successful
\* GetTicker call for that key returned.
C17_NeverDeleted ==
    /\ [][DOMAIN Ticker \subseteq DOMAIN Ticker']_vars
    /\ [](DOMAIN Ticker \subseteq Pairs)
    /\ [](\A k \in DOMAIN Ticker : Ticker[k] \in FetchedFor(k))

\* C17, the state that breaks it: an entry that no fetch returned
C17_TornEntry ==
    \E k \in DOMAIN Ticker : Ticker[k] \notin Tickers

----------------------------------------------------------------------------
(* Properties of a fan-out task *)

\* C18: a task whose fetch succeeded first writes its snapshot into the
\* mapping, then converts, then forwards exactly two records: the raw
\* base/quote pair with the last price, then the base against USD with the
\* converted last price; a failed conversion prevents neither the write nor
\* either record, and nothing stops the task on the way.
C18_WriteThenConvertThenForward ==
    /\ [][\A t \in TaskIDs :
             sink'[t] # sink[t] =>
                /\ tasks[t].pc = "written"
                /\ tasks[t].currency \in DOMAIN Ticker
                /\ sink[t] = <<>>
                /\ Len(sink'[t]) = 2
                /\ sink'[t][1].exchange = "BTC Markets"
                /\ sink'[t][1].base \o sink'[t][1].quote = tasks[t].currency
                /\ Len(sink'[t][1].base) = 3
                /\ sink'[t][1].price = tasks[t].ticker.LastPrice
                /\ sink'[t][2].exchange = "BTC Markets"
                /\ sink'[t][2].base = sink'[t][1].base
                /\ sink'[t][2].quote = "USD"
                /\ sink'[t][2].price \in {tasks[t].ticker.LastPrice * UsdPerAud, 0}]_vars
    /\ [](\A t \in TaskIDs :
             tasks[t].pc = "done"
             => (Len(sink[t]) = 2 /\ tasks[t].currency \in DOMAIN Ticker))
    /\ [](\A t \in TaskIDs : Unfinished(t) => ~crashed)

\* C18, the tolerated failure: a task has ended, its conversion failed, and
\* its entry and both of its records are there.
C18_ConversionFailedBothForwarded ==
    \E t \in TaskIDs :
       /\ tasks[t].pc = "done"
       /\ tasks[t].currency \in DOMAIN Ticker
       /\ Len(sink[t]) = 2
       /\ sink[t][1].price > 0
       /\ sink[t][2].quote = "USD"
       /\ sink[t][2].price = 0

----------------------------------------------------------------------------
(* Properties of the transmitted request *)

\* C19: in every request SendAuthenticatedRequest transmits, the signature
\* header is the base64 text of the HMAC-SHA512, keyed with the decoded
\* secret, of the string made of the path that follows the base URL, the
\* timestamp header and the body that is sent; the apikey header is the
\* configured API key; and the timestamp header is the one nonce of the call.
C19_HeadersMatchSigned ==
    [][(last' # last /\ last'.op = "SendAuthenticatedRequest" /\ ~last'.panic) =>
         /\ \E path \in SignedPaths :
               /\ last'.sent.url = "https://api.btcmarkets.net" \o path
               /\ last'.sent.headers.signature =
                     [base64 |-> [hash |-> "SHA512",
                                  input |-> path \o "\n" \o last'.sent.headers.timestamp
                                            \o "\n" \o last'.sent.body,
                                  key |-> APISecret]]
         /\ APISecret \notin Secrets
         /\ last'.sent.headers.apikey = APIKey
         /\ last'.sent.headers.timestamp = last'.nonce
         /\ last'.hmac.key = APISecret
         /\ last'.sent.headers.signature = [base64 |-> last'.hmac]]_vars

C19_Witness ==
    /\ Signed
    /\ APIKey = "key-1"
    /\ APISecret = "abc123"
    /\ last.sent.headers.timestamp = "1478073600123"
    /\ last.sent.body = "{\"orderIds\":[1,2]}"
    /\ last.sent.reqType = "POST"
    /\ last.transportCalls = 1

----------------------------------------------------------------------------
(* Termination of Run *)

Polling == runPC \in {"check", "launch", "sleep"}

\* C20: Run invoked on a disabled client launches nothing, touches neither
\* the mapping nor the sink and returns; a client disabled while Run polls
\* makes Run return, after the sleep it is in and without another cycle, as
\* long as it is not enabled again; and Run returns only on finding the
\* client disabled.
C20_RunTerminatesOnDisable ==
    /\ []((runPC = "returned" /\ cycle = 0)
            => (tasks = EmptyMap /\ Ticker = EmptyMap /\ sink = EmptyMap /\ getCalls = 0))
    /\ [][(runPC = "check" /\ ~Enabled /\ runPC' # runPC)
            => (runPC' = "returned" /\ UNCHANGED <<cycle, tasks, Ticker, sink>>)]_vars
    /\ [][cycle' # cycle => Enabled]_vars
    /\ [][(runPC # "returned" /\ runPC' = "returned") => ~Enabled]_vars
    /\ (Polling /\ ~Enabled) ~> (runPC = "returned" \/ Enabled)

\* C20, the first case: Run was invoked on a disabled client and has returned
C20_ReturnedWithoutPolling ==
    /\ runPC = "returned"
    /\ cycle = 0
    /\ ~Enabled
    /\ Len(EnabledPairs) = 2
    /\ tasks = EmptyMap

====
